---------------------------- MODULE Spec2Model ----------------------------
(***************************************************************************)
(* Model of src/parser.py, the Little Red Bandwagon podcast feed parser:   *)
(* the duration formatter timedelta_to_str, the text normalizer            *)
(* unsmart_quotes, the episode normalizer process_episodes, the feed       *)
(* adapter parse_feed, the page renderer render_html and the module-level  *)
(* pipeline that runs them.                                                *)
(*                                                                         *)
(* A Python str is a sequence of one-character strings.  Characters that   *)
(* are not ASCII are written as tokens: "RSQ" (U+2019), "LDQ" (U+201C),    *)
(* "RDQ" (U+201D), "NBSP" (U+00A0), "ELLIPSIS" (U+2026), "ACUTE" (U+0301)  *)
(* and "EACUTE" (U+00E9); "APOS" is ', "QUOT" is " and "BSLASH" is \.      *)
(***************************************************************************)
EXTENDS Integers, Sequences, FiniteSets, TLC

VARIABLES
    \* timedelta_to_str: the arguments of one call and its outcome
    time_delta, input_type, format_string, fmt_pc, fmt_result,
    \* unsmart_quotes: the argument, and the results of applying it once and twice
    text, text_pc, text_once, text_twice,
    \* the pipeline (module level, parse_feed, process_episodes, render_html)
    pc, feed, episodes, processed, processed_episodes, idx, err, stages,
    page, prior_file, output_file, written

fmt_vars == <<time_delta, input_type, format_string, fmt_pc, fmt_result>>
text_vars == <<text, text_pc, text_once, text_twice>>
pipe_vars == <<pc, feed, episodes, processed, processed_episodes, idx, err,
               stages, page, prior_file, output_file, written>>
vars == <<fmt_vars, text_vars, pipe_vars>>

---------------------------------------------------------------------------
(* Bounds of the model *)

\* the dense range of durations, in seconds, the formatter is called with
MaxSeconds == 3800
\* the longest string the text normalizer is applied to
MaxTextLen == 3
\* the longest episode list the feed-parsing collaborator returns
MaxEpisodes == 3

---------------------------------------------------------------------------
(* Strings *)

Digits == <<"0", "1", "2", "3", "4", "5", "6", "7", "8", "9">>

IsDigit(c) == \E k \in 1..10 : Digits[k] = c

DigitValue(c) == (CHOOSE k \in 1..10 : Digits[k] = c) - 1

\* str(n) for an int n >= 0
RECURSIVE IntToStr(_)
IntToStr(n) ==
    IF n < 10 THEN <<Digits[n + 1]>>
    ELSE IntToStr(n \div 10) \o <<Digits[(n % 10) + 1]>>

\* int(s) for a string of decimal digits; 0 for the empty string
RECURSIVE StrToInt(_)
StrToInt(s) ==
    IF s = <<>> THEN 0
    ELSE 10 * StrToInt(SubSeq(s, 1, Len(s) - 1)) + DigitValue(s[Len(s)])

Repeat(c, n) == [k \in 1..n |-> c]

\* whether s has prefix p at position k
HasAt(s, p, k) ==
    /\ k + Len(p) - 1 <= Len(s)
    /\ \A j \in 1..Len(p) : s[k + j - 1] = p[j]

\* the position of the first c in s at or after k, Len(s) + 1 when there is none
RECURSIVE Find(_, _, _)
Find(s, c, k) ==
    IF k > Len(s) THEN Len(s) + 1
    ELSE IF s[k] = c THEN k
    ELSE Find(s, c, k + 1)

\* str.replace(old, new) for a non-empty old: left to right, non-overlapping
RECURSIVE StrReplace(_, _, _)
StrReplace(s, old, new) ==
    IF s = <<>> THEN <<>>
    ELSE IF HasAt(s, old, 1)
         THEN new \o StrReplace(SubSeq(s, Len(old) + 1, Len(s)), old, new)
         ELSE <<s[1]>> \o StrReplace(SubSeq(s, 2, Len(s)), old, new)

---------------------------------------------------------------------------
(* timedelta_to_str, lines 42-96 *)

\* datetime.timedelta(seconds=n) for an int n: the normalized days, seconds
\* and microseconds the object stores
Timedelta(n) ==
    [days |-> n \div 86400, seconds |-> n % 86400, microseconds |-> 0]

\* int(td.total_seconds()) of line 75: the float
\* (days * 86400 + seconds) + microseconds / 10^6, truncated
IntTotalSeconds(td) ==
    (td.days * 86400 + td.seconds) + (td.microseconds \div 1000000)

\* a plain number passed as time_delta
Number(n) == [value |-> n]

\* the input_type strings lines 74-85 recognize
RecognizedTypes ==
    {"timedelta", "s", "seconds", "m", "minutes", "h", "hours",
     "d", "days", "w", "weeks"}

\* the if/elif chain of lines 74-85; there is no else branch, so for any
\* other input_type the local `remainder` stays unbound
InitialRemainder(td, it) ==
    IF it = "timedelta" THEN IntTotalSeconds(td)
    ELSE IF it \in {"s", "seconds"} THEN td.value
    ELSE IF it \in {"m", "minutes"} THEN td.value * 60
    ELSE IF it \in {"h", "hours"} THEN td.value * 3600
    ELSE IF it \in {"d", "days"} THEN td.value * 86400
    ELSE td.value * 604800

\* Formatter().parse(format_string), line 88: one tuple (literal_text,
\* field_name, format_spec) per replacement field, and one for a trailing
\* literal, whose field_name is None (has_field FALSE).  Brace escapes and
\* conversions are not modelled; the templates are well formed.
RECURSIVE FormatterParse(_)
FormatterParse(s) ==
    IF s = <<>> THEN <<>>
    ELSE LET open == Find(s, "{", 1) IN
         IF open > Len(s)
         THEN << [literal_text |-> s, has_field |-> FALSE,
                  field_name |-> <<>>, format_spec |-> <<>>] >>
         ELSE LET close == Find(s, "}", open)
                  inner == SubSeq(s, open + 1, close - 1)
                  colon == Find(inner, ":", 1)
              IN  << [literal_text |-> SubSeq(s, 1, open - 1),
                      has_field |-> TRUE,
                      field_name |-> SubSeq(inner, 1, colon - 1),
                      format_spec |-> SubSeq(inner, colon + 1, Len(inner))] >>
                  \o FormatterParse(SubSeq(s, close + 1, Len(s)))

\* desired_fields of line 88, as the set of the field names that are not None
DesiredFields(parsed) ==
    {parsed[k].field_name : k \in {j \in 1..Len(parsed) : parsed[j].has_field}}

\* line 89
possible_fields == << <<"W">>, <<"D">>, <<"H">>, <<"M">>, <<"S">> >>

\* line 90
constants ==
    (<<"W">> :> 604800) @@ (<<"D">> :> 86400) @@ (<<"H">> :> 3600)
    @@ (<<"M">> :> 60) @@ (<<"S">> :> 1)

\* divmod of line 94, a bug that leaves the remainder as it was
DivmodKeepAll(a, b) == <<a \div b, a>>

\* divmod(a, b) of line 94: (a // b, a % b)
Divmod(a, b) == <<a \div b, a % b>>

\* the dict with no key
EmptyDict == [k \in {} |-> 0]

\* values[key] = v
DictSet(d, key, v) ==
    [k \in DOMAIN d \cup {key} |-> IF k = key THEN v ELSE d[k]]

\* the loop of lines 92-94 from possible_fields[k] on: the dict `values`
RECURSIVE DivideFields(_, _, _, _)
DivideFields(k, desired, values, remainder) ==
    IF k > Len(possible_fields) THEN values
    ELSE LET field == possible_fields[k] IN
         IF field \in desired /\ field \in DOMAIN constants
         THEN LET qr == Divmod(remainder, constants[field])
              IN  DivideFields(k + 1, desired, DictSet(values, field, qr[1]), qr[2])
         ELSE DivideFields(k + 1, desired, values, remainder)

\* format(n, format_spec), a bug that pads on the right
FormatIntLeft(n, format_spec) ==
    LET ds == IntToStr(n)
        zero == format_spec # <<>> /\ format_spec[1] = "0"
        width == StrToInt(format_spec)
    IN  IF Len(ds) >= width THEN ds
        ELSE ds \o Repeat(IF zero THEN "0" ELSE " ", width - Len(ds))

\* format(n, format_spec) for an int n >= 0 and a format_spec that is empty,
\* a width ("2") or a zero flag and a width ("02"): numbers are right-aligned,
\* padded with spaces or, with the zero flag, with zeros
FormatInt(n, format_spec) ==
    LET ds == IntToStr(n)
        zero == format_spec # <<>> /\ format_spec[1] = "0"
        width == StrToInt(format_spec)
    IN  IF Len(ds) >= width THEN ds
        ELSE Repeat(IF zero THEN "0" ELSE " ", width - Len(ds)) \o ds

\* f.format(format_string, **values), line 96, from tuple k of the parse on:
\* a field that is no key of values raises KeyError
RECURSIVE FormatterFormat(_, _, _)
FormatterFormat(parsed, k, values) ==
    IF k > Len(parsed) THEN [kind |-> "ok", str |-> <<>>]
    ELSE LET t == parsed[k] IN
         IF t.has_field /\ t.field_name \notin DOMAIN values
         THEN [kind |-> "KeyError", str |-> <<>>]
         ELSE LET rest == FormatterFormat(parsed, k + 1, values)
                  here == IF t.has_field
                          THEN t.literal_text
                               \o FormatInt(values[t.field_name], t.format_spec)
                          ELSE t.literal_text
              IN  IF rest.kind = "ok"
                  THEN [kind |-> "ok", str |-> here \o rest.str]
                  ELSE rest

\* timedelta_to_str(time_delta, format_string, input_type): the outcome
\* (kind "ok" with the string returned, or the exception raised) and the
\* local dict `values` when the loop of lines 92-94 ended
timedelta_to_str(td, fs, it) ==
    LET parsed == FormatterParse(fs)
        desired == DesiredFields(parsed)
        bound == it \in RecognizedTypes
        used == {k \in 1..Len(possible_fields) : possible_fields[k] \in desired}
    IN  IF ~bound /\ used # {}
        THEN \* line 94 reads `remainder`, which no branch assigned
             [kind |-> "UnboundLocalError", str |-> <<>>, values |-> EmptyDict]
        ELSE LET values == IF bound
                           THEN DivideFields(1, desired, EmptyDict,
                                             InitialRemainder(td, it))
                           ELSE EmptyDict
                 out == FormatterFormat(parsed, 1, values)
             IN  [kind |-> out.kind, str |-> out.str, values |-> values]

---------------------------------------------------------------------------
(* unsmart_quotes, lines 34-39 *)

\* unsmart_quotes, a bug that leaves the left double quotation mark in place
unsmart_quotes_two(t) ==
    StrReplace(StrReplace(t, <<"RSQ">>, <<"APOS">>), <<"RDQ">>, <<"QUOT">>)

\* unsmart_quotes(text): the three replacements, in the order of lines 36-38
unsmart_quotes(t) ==
    StrReplace(
        StrReplace(
            StrReplace(t, <<"RSQ">>, <<"APOS">>),
            <<"RDQ">>, <<"QUOT">>),
        <<"LDQ">>, <<"QUOT">>)

---------------------------------------------------------------------------
(* process_episodes, lines 117-147 *)

\* the compatibility decomposition of one character of the alphabet
Decompose(c) ==
    CASE c = "NBSP" -> <<" ">>
      [] c = "ELLIPSIS" -> <<".", ".", ".">>
      [] c = "EACUTE" -> <<"e", "ACUTE">>
      [] OTHER -> <<c>>

RECURSIVE DecomposeAll(_)
DecomposeAll(s) ==
    IF s = <<>> THEN <<>> ELSE Decompose(s[1]) \o DecomposeAll(Tail(s))

\* unicodedata.normalize("NFKC", s), line 125, on the alphabet of the model:
\* compatibility decomposition, then canonical composition (the only
\* composing pair of the alphabet is e followed by the combining acute)
NFKC(s) == StrReplace(DecomposeAll(s), <<"e", "ACUTE">>, <<"EACUTE">>)

IsSpace(c) == c \in {" ", "NBSP"}

\* str.strip(), line 126: leading and trailing whitespace removed
RECURSIVE LStrip(_)
LStrip(s) ==
    IF s # <<>> /\ IsSpace(s[1]) THEN LStrip(Tail(s)) ELSE s

RECURSIVE RStrip(_)
RStrip(s) ==
    IF s # <<>> /\ IsSpace(s[Len(s)])
    THEN RStrip(SubSeq(s, 1, Len(s) - 1))
    ELSE s

Strip(s) == RStrip(LStrip(s))

\* the date (year, month, day) of day number z since 1970-01-01 in the
\* proleptic Gregorian calendar, as datetime.fromtimestamp computes it
CivilFromDays(z) ==
    LET zz == z + 719468
        era == zz \div 146097
        doe == zz - era * 146097
        yoe == (doe - doe \div 1460 + doe \div 36524 - doe \div 146096) \div 365
        doy == doe - (365 * yoe + yoe \div 4 - yoe \div 100)
        mp == (5 * doy + 2) \div 153
        d == doy - (153 * mp + 2) \div 5 + 1
        m == IF mp < 10 THEN mp + 3 ELSE mp - 9
        y == yoe + era * 400 + (IF m <= 2 THEN 1 ELSE 0)
    IN  [year |-> y, month |-> m, day |-> d]

\* datetime.datetime.fromtimestamp(published, utc).strftime(
\* "%Y-%m-%d %H:%M:%S %Z"), lines 127-130, for an int published >= 0
FormatPublished(published) ==
    LET date == CivilFromDays(published \div 86400)
        secs == published % 86400
        two == <<"0", "2">>
    IN  FormatInt(date.year, <<"0", "4">>) \o <<"-">>
        \o FormatInt(date.month, two) \o <<"-">>
        \o FormatInt(date.day, two) \o <<" ">>
        \o FormatInt(secs \div 3600, two) \o <<":">>
        \o FormatInt((secs % 3600) \div 60, two) \o <<":">>
        \o FormatInt(secs % 60, two) \o <<" ", "U", "T", "C">>

\* the format_string of line 133, a bug that zero-pads the hours
EpisodeFormatZeroHours ==
    <<"{", "H", ":", "0", "2", "}", ":", "{", "M", ":", "0", "2", "}", ":",
      "{", "S", ":", "0", "2", "}">>

\* the format_string of line 133: "{H:2}:{M:02}:{S:02}"
EpisodeFormat ==
    <<"{", "H", ":", "2", "}", ":", "{", "M", ":", "0", "2", "}", ":",
      "{", "S", ":", "0", "2", "}">>

\* episode.get("total_time", 0), line 131
TotalTime(episode) ==
    IF "total_time" \in DOMAIN episode THEN episode.total_time ELSE 0

\* the dict lines 121-145 build from one raw episode with an enclosure;
\* timedelta_to_str is called with its default input_type, "timedelta"
ProcessedEpisode(episode) ==
    [guid |-> episode.guid,
     title |-> unsmart_quotes(episode.title),
     published_date |-> FormatPublished(episode.published),
     total_time |->
         timedelta_to_str(Timedelta(TotalTime(episode)), EpisodeFormat,
                          "timedelta").str,
     description |->
         NFKC(StrReplace(unsmart_quotes(episode.description_html),
                         <<"BSLASH", "+">>, <<"+">>)),
     raw_description |-> episode.description_html,
     enclosure_url |-> Strip(episode.enclosures[1].url)]

\* list.append of line 135, a bug that inserts at the front
InsertFirst(list, item) == <<item>> \o list

\* _processed_episodes.append(item), line 135
ListAppend(list, item) == Append(list, item)

---------------------------------------------------------------------------
(* parse_feed, lines 99-114 *)

\* list.reverse() of line 113, a bug that leaves the list as it is
ListKeep(list) == list

\* _episodes.reverse(), line 113
ListReverse(list) == [k \in 1..Len(list) |-> list[Len(list) + 1 - k]]

---------------------------------------------------------------------------
(* render_html, lines 150-170 *)

\* _template.render(episodes=episode_list), line 166.  The template file is
\* not part of the sources: the page is kept abstract, as the blocks the
\* file is written in, one per episode between a header and a footer.
RenderPage(episode_list) ==
    <<"header">> \o [k \in 1..Len(episode_list) |-> episode_list[k].guid]
    \o <<"footer">>

---------------------------------------------------------------------------
(* Inputs *)

\* all sequences over S of length at most n
SeqsUpTo(S, n) == UNION {[1..k -> S] : k \in 0..n}

\* durations beyond the dense range: the unit boundaries, hours of two and
\* of three digits, and the durations of the docstring examples (lines 57-60)
SampleSeconds ==
    {0, 59, 60, 3599, 3600, 3725, 35999, 36000, 86399, 86400, 90061, 260000,
     359999, 360000, 461042, 604799, 604800, 2880242}

SampleNumbers == {0, 1, 7, 100}

UnrecognizedTypes == {"fortnights", "ms"}

\* the replacement field a template of the model uses for each field
FieldPiece(f) ==
    CASE f = <<"W">> -> <<"{", "W", "}", "w", " ">>
      [] f = <<"D">> -> <<"{", "D", ":", "2", "}", "d", " ">>
      [] f = <<"H">> -> <<"{", "H", "}", "h", " ">>
      [] f = <<"M">> -> <<"{", "M", ":", "0", "2", "}", "m", " ">>
      [] f = <<"S">> -> <<"{", "S", ":", "0", "2", "}", "s">>

\* the template that references exactly the fields F, from possible_fields[k] on
RECURSIVE TemplateOf(_, _)
TemplateOf(F, k) ==
    IF k > Len(possible_fields) THEN <<>>
    ELSE (IF possible_fields[k] \in F THEN FieldPiece(possible_fields[k]) ELSE <<>>)
         \o TemplateOf(F, k + 1)

FieldSet == {possible_fields[k] : k \in 1..Len(possible_fields)}

\* the default format_string, line 44: "{D:02}d {H:02}h {M:02}m {S:02}s"
DefaultFormat ==
    <<"{", "D", ":", "0", "2", "}", "d", " ", "{", "H", ":", "0", "2", "}", "h", " ",
      "{", "M", ":", "0", "2", "}", "m", " ", "{", "S", ":", "0", "2", "}", "s">>

Templates ==
    {TemplateOf(F, 1) : F \in SUBSET FieldSet}
    \cup {EpisodeFormat, DefaultFormat,
          <<"{", "X", "}">>, <<"n", "/", "a">>,
          <<"{", "H", "}", "h", " ", "{", "S", "}", "s">>}

\* the calls of timedelta_to_str the model makes
FormatCalls ==
    [td : {Timedelta(n) : n \in 0..MaxSeconds}, it : {"timedelta"},
     fs : {EpisodeFormat}]
    \cup [td : {Timedelta(n) : n \in SampleSeconds}, it : {"timedelta"},
          fs : Templates]
    \cup [td : {Number(n) : n \in SampleSeconds}, it : {"s", "seconds"},
          fs : Templates]
    \cup [td : {Number(n) : n \in SampleNumbers},
          it : RecognizedTypes \ {"timedelta", "s", "seconds"}, fs : Templates]
    \cup [td : {Number(0), Number(3725)}, it : UnrecognizedTypes, fs : Templates]

TextAlphabet == {"RSQ", "LDQ", "RDQ", "APOS", "QUOT", "a"}

\* the raw episode records the feed-parsing collaborator returns
Episode1 ==
    [guid |-> "ep1",
     title |-> <<"I", "t", "RSQ", "s">>,
     description_html |-> <<"LDQ", "a", "RDQ", "BSLASH", "+", "NBSP", "ELLIPSIS">>,
     enclosures |-> << [url |-> <<" ", "u", "1", " ">>] >>,
     published |-> 951782399,
     total_time |-> 3725]

Episode2 ==
    [guid |-> "ep2",
     title |-> <<"LDQ", "b", "RDQ">>,
     description_html |-> <<"e", "ACUTE", "APOS">>,
     enclosures |-> << [url |-> <<"u", "2">>], [url |-> <<"x">>] >>,
     published |-> 951782400]

Episode3 ==
    [guid |-> "ep3",
     title |-> <<"c">>,
     description_html |-> <<"RSQ", "+", "BSLASH">>,
     enclosures |-> << [url |-> <<"NBSP", "u", "3">>] >>,
     published |-> 1704164645,
     total_time |-> 0]

\* a record with no enclosure
Episode4 ==
    [guid |-> "ep4",
     title |-> <<"d", "QUOT">>,
     description_html |-> <<"d">>,
     enclosures |-> <<>>,
     published |-> 1704164645,
     total_time |-> 360000]

EpisodePool == {Episode1, Episode2, Episode3, Episode4}

\* the output file before the run: absent, or a page an earlier run wrote
AbsentFile == [exists |-> FALSE, content |-> <<>>]

StaleFile == [exists |-> TRUE, content |-> <<"header", "stale", "footer">>]

NoResult == [kind |-> "none", str |-> <<>>, values |-> EmptyDict]

---------------------------------------------------------------------------
(* Initial states *)

FormatIdle ==
    /\ time_delta = Timedelta(0)
    /\ input_type = "timedelta"
    /\ format_string = <<>>
    /\ fmt_pc = "idle"
    /\ fmt_result = NoResult

TextIdle ==
    /\ text = <<>>
    /\ text_pc = "idle"
    /\ text_once = <<>>
    /\ text_twice = <<>>

PipelineIdle ==
    /\ pc = "idle"
    /\ feed = <<>>
    /\ episodes = <<>>
    /\ processed = <<>>
    /\ processed_episodes = <<>>
    /\ idx = 0
    /\ err = "none"
    /\ stages = <<>>
    /\ page = <<>>
    /\ prior_file = AbsentFile
    /\ output_file = AbsentFile
    /\ written = 0

\* the script is about to run line 173; the collaborator will return `feed`
Init ==
    /\ FormatIdle
    /\ TextIdle
    /\ pc = "start"
    /\ feed \in SeqsUpTo(EpisodePool, MaxEpisodes)
    /\ episodes = <<>>
    /\ processed = <<>>
    /\ processed_episodes = <<>>
    /\ idx = 0
    /\ err = "none"
    /\ stages = <<>>
    /\ page = <<>>
    /\ prior_file \in {AbsentFile, StaleFile}
    /\ output_file = prior_file
    /\ written = 0

\* process_episodes has just been called with the list `episodes`, any list
\* of raw episode records (the empty one included)
InitNormalize ==
    /\ FormatIdle
    /\ TextIdle
    /\ pc = "normalize"
    /\ episodes \in SeqsUpTo(EpisodePool, MaxEpisodes)
    /\ feed = ListReverse(episodes)
    /\ processed = <<>>
    /\ processed_episodes = <<>>
    /\ idx = 0
    /\ err = "none"
    /\ stages = <<"acquire", "normalize">>
    /\ page = <<>>
    /\ prior_file \in {AbsentFile, StaleFile}
    /\ output_file = prior_file
    /\ written = 0

\* timedelta_to_str is about to be called
InitFormat ==
    /\ TextIdle
    /\ PipelineIdle
    /\ \E call \in FormatCalls :
          /\ time_delta = call.td
          /\ input_type = call.it
          /\ format_string = call.fs
    /\ fmt_pc = "ready"
    /\ fmt_result = NoResult

\* unsmart_quotes is about to be called
InitText ==
    /\ FormatIdle
    /\ PipelineIdle
    /\ text \in SeqsUpTo(TextAlphabet, MaxTextLen)
    /\ text_pc = "ready"
    /\ text_once = <<>>
    /\ text_twice = <<>>

---------------------------------------------------------------------------
(* Actions *)

\* one call of timedelta_to_str
CallFormat ==
    /\ fmt_pc = "ready"
    /\ fmt_result' = timedelta_to_str(time_delta, format_string, input_type)
    /\ fmt_pc' = "returned"
    /\ UNCHANGED <<time_delta, input_type, format_string, text_vars, pipe_vars>>

\* unsmart_quotes(text)
ApplyOnce ==
    /\ text_pc = "ready"
    /\ text_once' = unsmart_quotes(text)
    /\ text_pc' = "once"
    /\ UNCHANGED <<text, text_twice, fmt_vars, pipe_vars>>

\* unsmart_quotes applied to its own result
ApplyTwice ==
    /\ text_pc = "once"
    /\ text_twice' = unsmart_quotes(text_once)
    /\ text_pc' = "twice"
    /\ UNCHANGED <<text, text_once, fmt_vars, pipe_vars>>

\* line 173, parse_feed: the collaborator returns its list, which line 113
\* reverses in place and line 114 returns
ParseFeed ==
    /\ pc = "start"
    /\ stages' = Append(stages, "acquire")
    /\ episodes' = ListReverse(feed)
    /\ pc' = "guard"
    /\ UNCHANGED <<feed, processed, processed_episodes, idx, err, page,
                   prior_file, output_file, written, fmt_vars, text_vars>>

\* line 173, parse_feed: opening the feed file (line 103) or the collaborator
\* (line 104) raises, and nothing catches it
ParseFeedFails ==
    /\ pc = "start"
    /\ stages' = Append(stages, "acquire")
    /\ \E e \in {"OSError", "FeedParseError"} : err' = e
    /\ pc' = "failed"
    /\ UNCHANGED <<feed, episodes, processed, processed_episodes, idx, page,
                   prior_file, output_file, written, fmt_vars, text_vars>>

\* line 175, `if episodes:` with a non-empty list, and the call of line 176
\* up to line 119
EnterNormalize ==
    /\ pc = "guard"
    /\ episodes # <<>>
    /\ stages' = Append(stages, "normalize")
    /\ processed' = <<>>
    /\ idx' = 0
    /\ pc' = "normalize"
    /\ UNCHANGED <<feed, episodes, processed_episodes, err, page, prior_file,
                   output_file, written, fmt_vars, text_vars>>

\* line 175 with an empty list, a bug that has no guard: line 176 is run
SkipEmptyUnguarded ==
    /\ pc = "guard"
    /\ episodes = <<>>
    /\ stages' = Append(stages, "normalize")
    /\ processed' = <<>>
    /\ idx' = 0
    /\ pc' = "normalize"
    /\ UNCHANGED <<feed, episodes, processed_episodes, err, page, prior_file,
                   output_file, written, fmt_vars, text_vars>>

\* line 175, `if episodes:` with an empty list: the script ends
SkipEmpty ==
    /\ pc = "guard"
    /\ episodes = <<>>
    /\ pc' = "done"
    /\ UNCHANGED <<feed, episodes, processed, processed_episodes, idx, err,
                   stages, page, prior_file, output_file, written, fmt_vars,
                   text_vars>>

\* one iteration of the loop of lines 120-145 on a record with an enclosure
ProcessEpisode ==
    /\ pc = "normalize"
    /\ idx < Len(episodes)
    /\ episodes[idx + 1].enclosures # <<>>
    /\ processed' = ListAppend(processed, ProcessedEpisode(episodes[idx + 1]))
    /\ idx' = idx + 1
    /\ UNCHANGED <<pc, feed, episodes, processed_episodes, err, stages, page,
                   prior_file, output_file, written, fmt_vars, text_vars>>

\* one iteration on a record with no enclosure: episode["enclosures"][0] of
\* line 126 raises IndexError, and nothing catches it
ProcessEpisodeFails ==
    /\ pc = "normalize"
    /\ idx < Len(episodes)
    /\ episodes[idx + 1].enclosures = <<>>
    /\ err' = "IndexError"
    /\ pc' = "failed"
    /\ UNCHANGED <<feed, episodes, processed, processed_episodes, idx, stages,
                   page, prior_file, output_file, written, fmt_vars, text_vars>>

\* line 147 and the assignment of line 176
ReturnProcessed ==
    /\ pc = "normalize"
    /\ idx = Len(episodes)
    /\ processed_episodes' = processed
    /\ pc' = "normalized"
    /\ UNCHANGED <<feed, episodes, processed, idx, err, stages, page,
                   prior_file, output_file, written, fmt_vars, text_vars>>

\* line 177 up to line 164: render_html is called and builds its environment
EnterRender ==
    /\ pc = "normalized"
    /\ stages' = Append(stages, "render")
    /\ pc' = "get_template"
    /\ UNCHANGED <<feed, episodes, processed, processed_episodes, idx, err,
                   page, prior_file, output_file, written, fmt_vars, text_vars>>

\* line 165
GetTemplate ==
    /\ pc = "get_template"
    /\ pc' = "render"
    /\ UNCHANGED <<feed, episodes, processed, processed_episodes, idx, err,
                   stages, page, prior_file, output_file, written, fmt_vars,
                   text_vars>>

\* line 165: the template is missing or does not compile
GetTemplateFails ==
    /\ pc = "get_template"
    /\ \E e \in {"TemplateNotFound", "TemplateSyntaxError"} : err' = e
    /\ pc' = "failed"
    /\ UNCHANGED <<feed, episodes, processed, processed_episodes, idx, stages,
                   page, prior_file, output_file, written, fmt_vars, text_vars>>

\* line 166
RenderTemplate ==
    /\ pc = "render"
    /\ page' = RenderPage(processed_episodes)
    /\ pc' = "open"
    /\ UNCHANGED <<feed, episodes, processed, processed_episodes, idx, err,
                   stages, prior_file, output_file, written, fmt_vars, text_vars>>

\* line 166: rendering raises
RenderTemplateFails ==
    /\ pc = "render"
    /\ err' = "TemplateError"
    /\ pc' = "failed"
    /\ UNCHANGED <<feed, episodes, processed, processed_episodes, idx, stages,
                   page, prior_file, output_file, written, fmt_vars, text_vars>>

\* line 169: open(mode="w") creates the file or truncates it to length zero
OpenOutput ==
    /\ pc = "open"
    /\ output_file' = [exists |-> TRUE, content |-> <<>>]
    /\ written' = 0
    /\ pc' = "write"
    /\ UNCHANGED <<feed, episodes, processed, processed_episodes, idx, err,
                   stages, page, prior_file, fmt_vars, text_vars>>

\* line 169: the file cannot be opened (no directory, no permission)
OpenOutputFails ==
    /\ pc = "open"
    /\ err' = "OSError"
    /\ pc' = "failed"
    /\ UNCHANGED <<feed, episodes, processed, processed_episodes, idx, stages,
                   page, prior_file, output_file, written, fmt_vars, text_vars>>

\* line 170 and the close that ends the with block: the page reaches the
\* file block by block, in order
WriteBlock ==
    /\ pc = "write"
    /\ written < Len(page)
    /\ output_file' = [exists |-> TRUE,
                       content |-> Append(output_file.content, page[written + 1])]
    /\ written' = written + 1
    /\ UNCHANGED <<pc, feed, episodes, processed, processed_episodes, idx, err,
                   stages, page, prior_file, fmt_vars, text_vars>>

\* line 170: a write raises (the disk is full) with the page not yet whole
WriteFails ==
    /\ pc = "write"
    /\ written < Len(page)
    /\ err' = "OSError"
    /\ pc' = "failed"
    /\ UNCHANGED <<feed, episodes, processed, processed_episodes, idx, stages,
                   page, prior_file, output_file, written, fmt_vars, text_vars>>

\* the with block of line 169 ends with the page written; the script ends
CloseOutput ==
    /\ pc = "write"
    /\ written = Len(page)
    /\ pc' = "done"
    /\ UNCHANGED <<feed, episodes, processed, processed_episodes, idx, err,
                   stages, page, prior_file, output_file, written, fmt_vars,
                   text_vars>>

---------------------------------------------------------------------------
(* Specifications *)

Next ==
    \/ ParseFeed
    \/ ParseFeedFails
    \/ EnterNormalize
    \/ SkipEmpty
    \/ ProcessEpisode
    \/ ProcessEpisodeFails
    \/ ReturnProcessed
    \/ EnterRender
    \/ GetTemplate
    \/ GetTemplateFails
    \/ RenderTemplate
    \/ RenderTemplateFails
    \/ OpenOutput
    \/ OpenOutputFails
    \/ WriteBlock
    \/ WriteFails
    \/ CloseOutput

\* the script, lines 173-177
Spec == Init /\ [][Next]_vars

NextNormalize ==
    \/ ProcessEpisode
    \/ ProcessEpisodeFails
    \/ ReturnProcessed

\* one call of process_episodes
SpecNormalize == InitNormalize /\ [][NextNormalize]_vars

NextFormat == CallFormat

\* one call of timedelta_to_str
SpecFormat == InitFormat /\ [][NextFormat]_vars

NextText ==
    \/ ApplyOnce
    \/ ApplyTwice

\* unsmart_quotes applied to a string and to its result
SpecText == InitText /\ [][NextText]_vars

---------------------------------------------------------------------------
(* Properties *)

\* the number of seconds a timedelta stands for
SecondsOf(td) == td.days * 86400 + td.seconds

\* the number of leading spaces of s
RECURSIVE LeadingSpaces(_)
LeadingSpaces(s) ==
    IF s # <<>> /\ s[1] = " " THEN 1 + LeadingSpaces(Tail(s)) ELSE 0

AllDigits(s) == \A k \in 1..Len(s) : IsDigit(s[k])

\* a returned call with the episode template and a timedelta
HMSCall ==
    /\ fmt_pc = "returned"
    /\ input_type = "timedelta"
    /\ format_string = EpisodeFormat

\* C1: with the template "{H:2}:{M:02}:{S:02}" and a timedelta of d >= 0
\* seconds, the formatter returns hours, minutes and seconds that read back
\* as the one triple with d = 3600*H + 60*M + S, M < 60 and S < 60: the
\* hours right-aligned in two columns, padded with spaces and never cut,
\* the minutes and the seconds as two digits; 3725 gives " 1:02:05".
C1_HoursMinutesSeconds ==
    HMSCall =>
        LET d == SecondsOf(time_delta)
            s == fmt_result.str
            n == Len(s)
            hours == SubSeq(s, 1, n - 6)
            pad == LeadingSpaces(hours)
            hd == SubSeq(hours, pad + 1, Len(hours))
            md == SubSeq(s, n - 4, n - 3)
            sd == SubSeq(s, n - 1, n)
        IN  /\ fmt_result.kind = "ok"
            /\ n >= 8
            /\ s[n - 5] = ":" /\ s[n - 2] = ":"
            /\ hd # <<>> /\ AllDigits(hd) /\ AllDigits(md) /\ AllDigits(sd)
            /\ Len(hd) > 1 => hd[1] # "0"
            /\ Len(hours) = (IF Len(hd) > 2 THEN Len(hd) ELSE 2)
            /\ StrToInt(md) < 60 /\ StrToInt(sd) < 60
            /\ d = 3600 * StrToInt(hd) + 60 * StrToInt(md) + StrToInt(sd)
            /\ d = 3725 => s = <<" ", "1", ":", "0", "2", ":", "0", "5">>

\* a call with 3725 seconds has returned " 1:02:05"
C1_Witness ==
    /\ HMSCall
    /\ SecondsOf(time_delta) = 3725
    /\ fmt_result.str = <<" ", "1", ":", "0", "2", ":", "0", "5">>

\* C2: a call with an input_type that is not recognized ends in
\* InvalidUnitError, whatever the duration and the template.
C2_UnrecognizedUnitRaisesInvalidUnitError ==
    (fmt_pc = "returned" /\ input_type \notin RecognizedTypes)
        => fmt_result.kind = "InvalidUnitError"

\* the size in seconds of each field's unit
UnitSize(f) ==
    CASE f = <<"W">> -> 7 * 24 * 3600
      [] f = <<"D">> -> 24 * 3600
      [] f = <<"H">> -> 3600
      [] f = <<"M">> -> 60
      [] f = <<"S">> -> 1

\* the number of seconds the arguments of the call stand for
CallSeconds ==
    IF input_type = "timedelta" THEN SecondsOf(time_delta)
    ELSE time_delta.value *
         (CASE input_type \in {"s", "seconds"} -> 1
            [] input_type \in {"m", "minutes"} -> 60
            [] input_type \in {"h", "hours"} -> 3600
            [] input_type \in {"d", "days"} -> 24 * 3600
            [] input_type \in {"w", "weeks"} -> 7 * 24 * 3600)

\* the fields a template references: "{" and the field's letter, followed by
\* ":" or "}"
Referenced(fs) ==
    {f \in FieldSet :
        \E k \in 1..Len(fs) :
            \/ HasAt(fs, <<"{">> \o f \o <<"}">>, k)
            \/ HasAt(fs, <<"{">> \o f \o <<":">>, k)}

\* whether a template references nothing but the five fields
OnlyFields(fs) ==
    \A k \in 1..Len(fs) :
        fs[k] = "{" => \E f \in FieldSet : HasAt(fs, <<"{">> \o f, k)

\* the seconds the referenced fields before possible_fields[k] account for
RECURSIVE Accounted(_, _, _)
Accounted(values, F, k) ==
    IF k <= 1 THEN 0
    ELSE Accounted(values, F, k - 1)
         + (IF possible_fields[k - 1] \in F
            THEN values[possible_fields[k - 1]] * UnitSize(possible_fields[k - 1])
            ELSE 0)

\* a returned call with a recognized unit and a template over the five fields
FieldsCall ==
    /\ fmt_pc = "returned"
    /\ input_type \in RecognizedTypes
    /\ OnlyFields(format_string)

\* C10: the formatter computes a value for exactly the referenced fields; each
\* is the whole quotient, by its unit, of what the larger referenced fields
\* left of the total, so the largest referenced field is not capped (with
\* only H and M: the total hours, then the whole minutes of the rest); with
\* S referenced the values weighted by their units sum to the total.
C10_OnlyReferencedFieldsDivide ==
    FieldsCall =>
        LET F == Referenced(format_string)
            values == fmt_result.values
            total == CallSeconds
            n == Len(possible_fields)
        IN  /\ fmt_result.kind = "ok"
            /\ DOMAIN values = F
            /\ \A k \in 1..n :
                  possible_fields[k] \in F =>
                      values[possible_fields[k]] =
                          (total - Accounted(values, F, k))
                              \div UnitSize(possible_fields[k])
            /\ F = {<<"H">>, <<"M">>} =>
                  /\ values[<<"H">>] = total \div 3600
                  /\ values[<<"M">>] = (total % 3600) \div 60
            /\ <<"S">> \in F => Accounted(values, F, n + 1) = total
            /\ (total = 260000
                /\ format_string = <<"{", "H", "}", "h", " ", "{", "S", "}", "s">>)
                   => fmt_result.str = <<"7", "2", "h", " ", "8", "0", "0", "s">>

\* a template with only H and M has reported more than 24 hours
C10_Witness ==
    /\ FieldsCall
    /\ Referenced(format_string) = {<<"H">>, <<"M">>}
    /\ fmt_result.kind = "ok"
    /\ fmt_result.values[<<"H">>] > 24
    /\ fmt_result.values[<<"M">>] > 0

\* the run has ended
Ended == pc \in {"done", "failed"}

\* an exception ended the run inside parse_feed
FailedInAcquire == pc = "failed" /\ stages = <<"acquire">>

\* an exception ended the run inside process_episodes
FailedInNormalize == pc = "failed" /\ stages = <<"acquire", "normalize">>

\* parse_feed has returned
Acquired == pc \notin {"idle", "start"} /\ ~FailedInAcquire

\* the file holding the whole page rendered from the normalized list
CompleteFile ==
    [exists |-> TRUE, content |-> RenderPage(processed_episodes)]

\* C3: a batch holding a record with no enclosure fails with
\* MissingEnclosureError at the first such record: nothing is emitted for it
\* or for a later record, no list is returned, and rendering is not reached.
C3_MissingEnclosureFailsFast ==
    /\ FailedInNormalize =>
          /\ err = "MissingEnclosureError"
          /\ idx < Len(episodes)
          /\ episodes[idx + 1].enclosures = <<>>
          /\ \A k \in 1..idx : episodes[k].enclosures # <<>>
          /\ Len(processed) = idx
          /\ processed_episodes = <<>>
          /\ output_file = prior_file
    /\ (\E k \in 1..Len(episodes) : episodes[k].enclosures = <<>>) =>
          /\ pc \in {"guard", "normalize", "failed"}
          /\ Len(stages) <= 2

\* C4: at every point of a run the output file holds what it held before
\* the run, or the whole rendered page.
C4_OutputFileOldOrComplete ==
    \/ output_file = prior_file
    \/ (page = RenderPage(processed_episodes) /\ output_file = CompleteFile)

\* C5: process_episodes keeps its input as it is; after every iteration the
\* records emitted are as many as the records processed, record k taking its
\* guid and its raw description from input record k; the list returned is
\* as long as the input.
C5_NormalizePreservesLengthAndOrder ==
    /\ episodes = ListReverse(feed)
    /\ pc \in {"normalize", "normalized", "failed"} =>
          /\ Len(processed) = idx
          /\ idx <= Len(episodes)
          /\ \A k \in 1..Len(processed) :
                /\ processed[k].guid = episodes[k].guid
                /\ processed[k].raw_description = episodes[k].description_html
    /\ pc = "normalized" =>
          /\ Len(processed_episodes) = Len(episodes)
          /\ \A k \in 1..Len(episodes) :
                /\ processed_episodes[k].guid = episodes[k].guid
                /\ processed_episodes[k].raw_description
                       = episodes[k].description_html

\* three records, not all the same, have been normalized and returned
C5_Witness ==
    /\ pc = "normalized"
    /\ Len(processed_episodes) = 3
    /\ processed_episodes[1].guid # processed_episodes[2].guid
    /\ processed_episodes[2].guid # processed_episodes[3].guid

\* " 0:00:00"
ZeroDuration == <<" ", "0", ":", "0", "0", ":", "0", "0">>

NoTotalTime(episode) == "total_time" \notin DOMAIN episode

\* C6: a record with no total_time key and an enclosure never makes
\* process_episodes fail, and its duration string is " 0:00:00", as for a
\* record whose total_time is 0.
C6_MissingTotalTimeIsZero ==
    /\ \A k \in 1..Len(processed) :
          /\ NoTotalTime(episodes[k]) => processed[k].total_time = ZeroDuration
          /\ (~NoTotalTime(episodes[k]) /\ episodes[k].total_time = 0)
                => processed[k].total_time = ZeroDuration
    /\ (pc \in {"normalize", "failed"} /\ idx > 0 /\ NoTotalTime(episodes[idx]))
          => Len(processed) = idx
    /\ FailedInNormalize =>
          ~(NoTotalTime(episodes[idx + 1]) /\ episodes[idx + 1].enclosures # <<>>)

\* a record with no total_time key and one with total_time 0 were normalized
C6_Witness ==
    /\ pc = "normalized"
    /\ \E j, k \in 1..Len(processed_episodes) :
          /\ NoTotalTime(episodes[j])
          /\ ~NoTotalTime(episodes[k]) /\ episodes[k].total_time = 0
          /\ processed_episodes[j].total_time = ZeroDuration
          /\ processed_episodes[k].total_time = ZeroDuration

\* the order of two date strings of the same layout
RECURSIVE DateLeq(_, _)
DateLeq(a, b) ==
    IF a = <<>> \/ b = <<>> THEN TRUE
    ELSE IF a[1] = b[1] THEN DateLeq(Tail(a), Tail(b))
    ELSE IsDigit(a[1]) /\ IsDigit(b[1]) /\ DigitValue(a[1]) < DigitValue(b[1])

NewestFirst(list) ==
    \A k \in 1..(Len(list) - 1) : list[k].published >= list[k + 1].published

StrictlyNewestFirst(list) ==
    \A k \in 1..(Len(list) - 1) : list[k].published > list[k + 1].published

\* C7: parse_feed returns the collaborator's list reversed, element for
\* element; when that list is newest first, the episode list and the
\* normalized list are oldest first (strictly, when no two instants tie).
C7_FeedReversedOldestFirst ==
    Acquired =>
        LET n == Len(feed) IN
        /\ Len(episodes) = n
        /\ \A k \in 1..n : episodes[k] = feed[n + 1 - k]
        /\ NewestFirst(feed) =>
              /\ \A k \in 1..(n - 1) :
                    episodes[k].published <= episodes[k + 1].published
              /\ \A k \in 1..(Len(processed) - 1) :
                    DateLeq(processed[k].published_date,
                            processed[k + 1].published_date)
              /\ \A k \in 1..(Len(processed_episodes) - 1) :
                    DateLeq(processed_episodes[k].published_date,
                            processed_episodes[k + 1].published_date)
        /\ StrictlyNewestFirst(feed) =>
              /\ \A k \in 1..(n - 1) :
                    episodes[k].published < episodes[k + 1].published
              /\ \A k \in 1..(Len(processed_episodes) - 1) :
                    processed_episodes[k].published_date
                        # processed_episodes[k + 1].published_date

\* a feed of three episodes, newest first, was normalized and written
C7_Witness ==
    /\ pc = "done"
    /\ Len(feed) = 3
    /\ StrictlyNewestFirst(feed)
    /\ Len(processed_episodes) = 3
    /\ output_file = CompleteFile

Typographic == {"RSQ", "LDQ", "RDQ"}

\* the ASCII character the spec gives for each typographic quote
Plain(c) == IF c = "RSQ" THEN "APOS" ELSE "QUOT"

\* C8: unsmart_quotes replaces each typographic quote by its ASCII
\* character and leaves every other character as and where it is, so no
\* typographic quote is left; applying it to its result changes nothing.
C8_UnsmartQuotesIdempotent ==
    /\ text_pc \in {"once", "twice"} =>
          /\ Len(text_once) = Len(text)
          /\ \A k \in 1..Len(text) :
                /\ text_once[k] \notin Typographic
                /\ text_once[k] =
                      (IF text[k] \in Typographic THEN Plain(text[k]) ELSE text[k])
    /\ text_pc = "twice" => text_twice = text_once

\* a string holding the three typographic quotes was normalized twice
C8_Witness ==
    /\ text_pc = "twice"
    /\ Typographic \subseteq {text[k] : k \in 1..Len(text)}
    /\ text_twice # text

StageOrder == <<"acquire", "normalize", "render">>

\* the stages ran in order, each at most once
StagesInOrder ==
    /\ Len(stages) <= 3
    /\ \A k \in 1..Len(stages) : stages[k] = StageOrder[k]

\* C9, as stated: the stages run in order, each at most once, and every run
\* in which acquisition and normalization succeed, for any episode list,
\* renders once and has written the output file when it ends.
C9_EveryRunRenders ==
    /\ StagesInOrder
    /\ (Ended /\ ~FailedInAcquire /\ ~FailedInNormalize) => stages = StageOrder
    /\ pc = "done" => output_file = CompleteFile

\* C9, amended: the stages run in order, each at most once; every run in
\* which acquisition returns a non-empty list and normalization succeeds
\* calls render_html once, and has written the whole page when it ends
\* without an error; a run whose episode list is empty ends after the
\* acquisition, with the output file untouched.
C9_NonEmptyRunRenders ==
    /\ StagesInOrder
    /\ (Ended /\ Acquired /\ episodes # <<>> /\ ~FailedInNormalize)
          => stages = StageOrder
    /\ (pc = "done" /\ episodes # <<>>)
          => (stages = StageOrder /\ output_file = CompleteFile)
    /\ (pc = "done" /\ episodes = <<>>)
          => (stages = <<"acquire">> /\ output_file = prior_file)

\* a run with a non-empty list has ended with its page written
C9_Witness ==
    /\ pc = "done"
    /\ episodes # <<>>
    /\ stages = StageOrder
    /\ written = Len(page)
    /\ output_file.content = page

=============================================================================
